---- MODULE Spec2Model ----
(***************************************************************************)
(* Model of scripts/seed_duckdb.py: generate_events() and main().          *)
(*                                                                         *)
(* Units.  Time is in minutes since an arbitrary local-time origin.        *)
(* Coordinates are fixed-point, in units of 0.0001 degree (the precision   *)
(* of CENTER_LAT and CENTER_LNG); floating-point addition is monotone, so  *)
(* interval membership is preserved by the fixed-point reading.            *)
(*                                                                         *)
(* Randomness.  The random module is a process-wide pseudo-random          *)
(* generator seeded once when the process imports it: `rng` is its state,  *)
(* chosen when a process starts, and each call reads a value off it and    *)
(* advances it.  uuid.uuid4() reads the operating system's entropy on      *)
(* every call: each call returns either a fresh value or a repetition of   *)
(* an earlier value (a collision).  Identifiers are opaque, only their     *)
(* equality matters, so a fresh value is named by the smallest number that *)
(* no row visible to the run carries: neither a row of the batch being     *)
(* generated nor a row the table held when the run started.  For the same  *)
(* reason the rows a finished run left behind are renamed 1..n, in table   *)
(* order, when the next process starts; nothing the program does, and no   *)
(* property stated below, depends on which values the identifiers are.     *)
(*                                                                         *)
(* A title f"{topic} #{n}" is the pair <<topic, n>>.                        *)
(***************************************************************************)
EXTENDS Integers, Sequences, FiniteSets

\* ---------------------------------------------------------------- bounds
\* Rows already in the table before the first run: 0..MaxPrior.
MaxPrior == 1
\* Seeds of the random module explored for a whole program run: 0..MaxSeed.
MaxSeed == 0
\* uuid4 repetitions explored per process.
MaxCollisions == 1
\* random.uniform(a, b) returns a + (b-a)*k/JitterGrid for k in 0..JitterGrid.
JitterGrid == 2
\* Explicit count arguments of a direct generate_events(count) call: 0..MaxCount.
MaxCount == 2
\* Clock readings explored: the multiples 59*k of 59 minutes, k in 1..MaxClock.
MaxClock == 1

\* ------------------------------------------------------ program constants
CENTER_LAT == 294241
CENTER_LNG == -984936
DefaultCount == 24
MaxSuffix == 25
MaxDays == 30
MinHours == 1
MaxHours == 12
Jitter == 450
MinutesPerHour == 60
HoursPerDay == 24

EVENT_TOPICS ==
    << "Farmers Market", "Live Music", "Tech Meetup", "Art Walk",
       "Food Truck Rally", "Community Yoga", "Book Club", "Outdoor Movie",
       "Charity Run", "Craft Fair" >>

DESCRIPTIONS ==
    << "Local vendors, seasonal produce, and handmade goods.",
       "An evening of performances from neighborhood artists.",
       "Talks, demos, and networking with fellow builders.",
       "Gallery crawl featuring emerging creators.",
       "A rotation of the city's favorite food trucks.",
       "Sunrise flow for all levels. Bring your own mat.",
       "Discussing the latest reads over coffee.",
       "Family-friendly screening under the stars.",
       "5K/10K routes followed by a block party.",
       "DIY workshops and pop-up boutique stalls." >>

VARIABLES
    dirExists,    \* DB_PATH.parent exists on disk
    tableExists,  \* the store file holds a table named events
    table,        \* rows of the events table, in insertion order
    pc,           \* position of the running process in main / generate_events
    retpc,        \* where generate_events returns to
    con,          \* the connection object: "none", "open" or "closed"
    raised,       \* the unhandled exception that ended the run, or "none"
    rng,          \* state of the process-wide random generator
    collisions,   \* uuid4 repetitions so far
    args,         \* generate_events: the positional arguments of the call
    clock,        \* the datetime.now() reading of the current generate_events call
    count,        \* generate_events: the count argument
    now,          \* generate_events: the local now
    events,       \* generate_events: the local events list
    payload,      \* main: the local payload (the value generate_events returned)
    out,          \* lines printed on standard output by the current run
    table0        \* the rows the table held when the current run started

vars == <<dirExists, tableExists, table, pc, retpc, con, raised, rng,
          collisions, args, clock, count, now, events, payload, out, table0>>

store == <<dirExists, tableExists, table>>
genLocals == <<args, clock, count, now, events>>

\* ------------------------------------------------------------ time, rows
\* Variant: the reading is used as it is, minutes kept.
TruncateOmitted(t) == t

\* datetime.replace(minute=0, second=0, microsecond=0)
TruncateToHour(t) == t - (t % MinutesPerHour)

\* timedelta(days=d, hours=h), in minutes
TimeDelta(d, h) == ((d * HoursPerDay) + h) * MinutesPerHour

\* datetime.isoformat(): the calendar fields date, hour, minute, second
IsoFormat(t) ==
    [date   |-> t \div (HoursPerDay * MinutesPerHour),
     hour   |-> (t % (HoursPerDay * MinutesPerHour)) \div MinutesPerHour,
     minute |-> t % MinutesPerHour,
     second |-> 0]

\* The store's reading of an ISO string into a TIMESTAMP, back in minutes.
ParseTimestamp(s) ==
    (((s.date * HoursPerDay) + s.hour) * MinutesPerHour) + s.minute

\* ----------------------------------------------------------- random module
\* random.choice(seq) read off generator state r
Choice(r, seq) == seq[1 + (r % Len(seq))]

\* generator state after a choice from seq
AfterChoice(r, seq) == r \div Len(seq)

\* random.randint(a, b) read off generator state r
RandInt(r, a, b) == a + (r % ((b - a) + 1))

\* generator state after a randint(a, b)
AfterRandInt(r, a, b) == r \div ((b - a) + 1)

\* random.uniform(a, b) read off generator state r: a grid point of [a, b]
Uniform(r, a, b) == a + (((b - a) * (r % (JitterGrid + 1))) \div JitterGrid)

\* generator state after a uniform
AfterUniform(r) == r \div (JitterGrid + 1)

\* The seed off which the first record reads topic t, suffix n, day offset
\* d, hour offset h, description e and jitter grid points a and b, each
\* counted from 0.
SeedOf(t, n, d, h, e, a, b) ==
    LET s6 == b
        s5 == a + ((JitterGrid + 1) * s6)
        s4 == e + (Len(DESCRIPTIONS) * s5)
        s3 == h + (((MaxHours - MinHours) + 1) * s4)
        s2 == d + ((MaxDays + 1) * s3)
        s1 == n + (MaxSuffix * s2)
    IN  t + (Len(EVENT_TOPICS) * s1)

\* Seeds that make the first record's day offset, hour offset and two
\* jitters take every combination of values, with the first or the last of
\* the topics, suffixes and descriptions.
GenSeeds ==
    { SeedOf(x * (Len(EVENT_TOPICS) - 1), x * (MaxSuffix - 1), d, h,
             x * (Len(DESCRIPTIONS) - 1), a, b) :
        x \in 0 .. 1, d \in 0 .. MaxDays, h \in 0 .. (MaxHours - MinHours),
        a \in 0 .. JitterGrid, b \in 0 .. JitterGrid }

\* Clock readings handed out by datetime.now().
ClockReadings == { 59 * k : k \in 1 .. MaxClock }

\* ------------------------------------------------------------------ store
Ids(rows) == { rows[k].id : k \in DOMAIN rows }

\* uuid.uuid4() returning a value no visible row carries.
FreshUuid ==
    LET used == Ids(table0) \cup Ids(events)
    IN  CHOOSE u \in 1 .. (Cardinality(used) + 1) :
          /\ u \notin used
          /\ \A v \in 1 .. (u - 1) : v \in used

\* uuid.uuid4() repeating a value.  Which earlier value is repeated makes
\* no difference to the program; the one explored is that of the row
\* generated last (the last row the table held at start, for the first row
\* of a batch).
Uuid4Repeats ==
    LET seen == table0 \o events
    IN  IF collisions < MaxCollisions /\ seen # << >>
        THEN { seen[Len(seen)].id }
        ELSE {}

\* Variant: a table without a key, which rejects no row.
FirstDupUnchecked(tbl, rows) == 0

\* Index of the first row of `rows` whose id is already in `tbl` or in an
\* earlier row of `rows` (the primary key rejects it); 0 when there is none.
FirstDup(tbl, rows) ==
    LET bad == { j \in DOMAIN rows :
                   \/ rows[j].id \in Ids(tbl)
                   \/ \E m \in 1 .. (j - 1) : rows[m].id = rows[j].id }
    IN  IF bad = {} THEN 0 ELSE CHOOSE j \in bad : \A m \in bad : j <= m

\* CREATE TABLE [IF NOT EXISTS] events: the error it raises, or "none".
CreateTableError(exists, ifNotExists) ==
    IF exists /\ ~ifNotExists THEN "TableAlreadyExists" ELSE "none"

\* Variant: a plain CREATE TABLE.
IfNotExistsOmitted == FALSE

\* The DDL of main carries IF NOT EXISTS.
IfNotExists == TRUE

\* Variant: the DELETE statement is missing.
DeleteNothing(rows) == rows

\* Variant: a DELETE whose WHERE clause spares the newest row.
DeleteAllButLast(rows) ==
    IF rows = << >> THEN rows ELSE << rows[Len(rows)] >>

\* DELETE FROM events (no WHERE clause): the rows left.
DeleteAll(rows) == << >>

\* A row the table may hold before the first run.
PriorRow(k) ==
    [id |-> k, title |-> <<EVENT_TOPICS[1], 1>>,
     starts_at |-> IsoFormat(TimeDelta(0, MinHours)),
     description |-> DESCRIPTIONS[1],
     latitude |-> CENTER_LAT, longitude |-> CENTER_LNG]

\* ------------------------------------------------------ generate_events
\* Variant: the two centers exchanged.
MakeEventCentersSwapped(r, u) ==
    LET topic == Choice(r, EVENT_TOPICS)
        r1    == AfterChoice(r, EVENT_TOPICS)
        title == <<topic, RandInt(r1, 1, MaxSuffix)>>
        r2    == AfterRandInt(r1, 1, MaxSuffix)
        days  == RandInt(r2, 0, MaxDays)
        r3    == AfterRandInt(r2, 0, MaxDays)
        hours == RandInt(r3, MinHours, MaxHours)
        r4    == AfterRandInt(r3, MinHours, MaxHours)
        description == Choice(r4, DESCRIPTIONS)
        r5    == AfterChoice(r4, DESCRIPTIONS)
        jlat  == Uniform(r5, -Jitter, Jitter)
        r6    == AfterUniform(r5)
        jlng  == Uniform(r6, -Jitter, Jitter)
    IN  [id          |-> u,
         title       |-> title,
         starts_at   |-> IsoFormat(now + TimeDelta(days, hours)),
         description |-> description,
         latitude    |-> CENTER_LNG + jlat,
         longitude   |-> CENTER_LAT + jlng]

\* lines 51-66: one record of the loop body, from generator state r and
\* identifier u.
MakeEvent(r, u) ==
    LET topic == Choice(r, EVENT_TOPICS)
        r1    == AfterChoice(r, EVENT_TOPICS)
        title == <<topic, RandInt(r1, 1, MaxSuffix)>>
        r2    == AfterRandInt(r1, 1, MaxSuffix)
        days  == RandInt(r2, 0, MaxDays)
        r3    == AfterRandInt(r2, 0, MaxDays)
        hours == RandInt(r3, MinHours, MaxHours)
        r4    == AfterRandInt(r3, MinHours, MaxHours)
        description == Choice(r4, DESCRIPTIONS)
        r5    == AfterChoice(r4, DESCRIPTIONS)
        jlat  == Uniform(r5, -Jitter, Jitter)
        r6    == AfterUniform(r5)
        jlng  == Uniform(r6, -Jitter, Jitter)
    IN  [id          |-> u,
         title       |-> title,
         starts_at   |-> IsoFormat(now + TimeDelta(days, hours)),
         description |-> description,
         latitude    |-> CENTER_LAT + jlat,
         longitude   |-> CENTER_LNG + jlng]

\* generator state after the draws of one loop iteration
AfterEvent(r) ==
    AfterUniform(AfterUniform(AfterChoice(
        AfterRandInt(AfterRandInt(AfterRandInt(AfterChoice(r, EVENT_TOPICS),
            1, MaxSuffix), 0, MaxDays), MinHours, MaxHours), DESCRIPTIONS)))

\* line 46: count is the argument when one is given, else the default
CountOf(a) == IF a = << >> THEN DefaultCount ELSE a[1]

\* lines 46-48: bind count, read the clock, truncate, start with an empty list
GenEnter ==
    /\ pc = "gen_entry"
    /\ count' = CountOf(args)
    /\ now' = TruncateToHour(clock)
    /\ events' = << >>
    /\ pc' = "gen_loop"
    /\ UNCHANGED <<store, retpc, con, raised, rng, collisions, args, clock,
                   payload, out, table0>>

\* Variant: an off-by-one loop bound, range(count + 1).
LoopGuardOffByOne == Len(events) <= count

\* The loop continues while fewer than count iterations have run.
LoopGuard == Len(events) < count

\* lines 50-66: one iteration of the loop
GenLoop ==
    /\ pc = "gen_loop"
    /\ LoopGuard
    /\ \E u \in {FreshUuid} \cup Uuid4Repeats :
         /\ events' = Append(events, MakeEvent(rng, u))
         /\ collisions' = IF u = FreshUuid THEN collisions ELSE collisions + 1
    /\ rng' = AfterEvent(rng)
    /\ UNCHANGED <<store, pc, retpc, con, raised, args, clock, count, now,
                   payload, out, table0>>

\* line 68: return events
GenReturn ==
    /\ pc = "gen_loop"
    /\ ~LoopGuard
    /\ payload' = events
    /\ pc' = retpc
    /\ UNCHANGED <<store, retpc, con, raised, rng, collisions,
                   genLocals, out, table0>>

\* ------------------------------------------------------------------ main
\* The rows of `rows`, renamed 1..Len(rows) in order.
Renamed(rows) == [k \in DOMAIN rows |-> [rows[k] EXCEPT !.id = k]]

\* A new process starts: fresh locals, a freshly seeded random module, the
\* wall clock at some reading.
StartRun ==
    /\ pc \in {"idle", "done", "failed"}
    /\ pc' = "mkdir"
    /\ retpc' = "none"
    /\ con' = "none"
    /\ raised' = "none"
    /\ rng' \in 0 .. MaxSeed
    /\ collisions' = 0
    /\ args' = << >>
    /\ clock' \in ClockReadings
    /\ count' = 0
    /\ now' = 0
    /\ events' = << >>
    /\ payload' = << >>
    /\ out' = << >>
    /\ table' = Renamed(table)
    /\ table0' = Renamed(table)
    /\ UNCHANGED <<dirExists, tableExists>>

\* A statement of main completes and control moves to the next one.
Goto(next) ==
    /\ pc' = next
    /\ UNCHANGED <<retpc, raised, rng, collisions, genLocals, payload, out,
                   table0>>

\* An unhandled exception ends the process; nothing in main catches it, so
\* no later statement of main runs.  The frames' locals go with the process;
\* the connection object is left as it was.
Abort(err) ==
    /\ raised' = err
    /\ pc' = "failed"
    /\ args' = << >>
    /\ count' = 0
    /\ now' = 0
    /\ events' = << >>
    /\ payload' = << >>
    /\ UNCHANGED <<retpc, con, rng, collisions, clock, out, table0>>

\* line 72: DB_PATH.parent.mkdir(parents=True, exist_ok=True)
Mkdir ==
    /\ pc = "mkdir"
    /\ \/ /\ dirExists' = TRUE
          /\ Goto("connect")
          /\ UNCHANGED <<tableExists, table, con>>
       \/ /\ Abort("OSError")
          /\ UNCHANGED store

\* line 73: con = duckdb.connect(DB_PATH)
Connect ==
    /\ pc = "connect"
    /\ \/ /\ con' = "open"
          /\ Goto("create")
          /\ UNCHANGED store
       \/ /\ Abort("IOException")
          /\ UNCHANGED store

\* lines 75-86: con.execute("CREATE TABLE IF NOT EXISTS events (...)")
CreateTable ==
    /\ pc = "create"
    /\ \/ /\ CreateTableError(tableExists, IfNotExists) = "none"
          /\ tableExists' = TRUE
          /\ Goto("delete")
          /\ UNCHANGED <<dirExists, table, con>>
       \/ /\ CreateTableError(tableExists, IfNotExists) # "none"
          /\ Abort(CreateTableError(tableExists, IfNotExists))
          /\ UNCHANGED store
       \/ /\ Abort("IOException")
          /\ UNCHANGED store

\* line 88: con.execute("DELETE FROM events")
Delete ==
    /\ pc = "delete"
    /\ \/ /\ tableExists
          /\ table' = DeleteAll(table)
          /\ Goto("generate")
          /\ UNCHANGED <<dirExists, tableExists, con>>
       \/ /\ ~tableExists
          /\ Abort("CatalogException")
          /\ UNCHANGED store
       \/ /\ Abort("IOException")
          /\ UNCHANGED store

\* line 90: payload = generate_events()
CallGenerate ==
    /\ pc = "generate"
    /\ args' = << >>
    /\ retpc' = "insert"
    /\ pc' = "gen_entry"
    /\ UNCHANGED <<store, con, raised, rng, collisions, clock, count, now,
                   events, payload, out, table0>>

\* line 90: an exception raised while generate_events runs (MemoryError,
\* KeyboardInterrupt) propagates through main like any other.
GenRaise ==
    /\ pc = "gen_loop"
    /\ retpc = "insert"
    /\ Abort("MemoryError")
    /\ UNCHANGED store

\* lines 91-94: con.executemany("INSERT INTO events ... VALUES (?, ...)", payload)
\* The statement runs once per row of payload, in order.  It stops at the
\* first row the primary key rejects, or at a row where the store fails; the
\* rows before that one are either all kept or all rolled back.
Insert ==
    /\ pc = "insert"
    /\ LET dup == FirstDup(table, payload)
       IN  \/ /\ dup = 0
              /\ table' = table \o payload
              /\ Goto("close")
              /\ UNCHANGED <<dirExists, tableExists, con>>
           \/ /\ dup # 0
              /\ \E kept \in {0, dup - 1} :
                   table' = table \o SubSeq(payload, 1, kept)
              /\ Abort("ConstraintException")
              /\ UNCHANGED <<dirExists, tableExists>>
           \/ /\ \E j \in 1 .. (IF dup = 0 THEN Len(payload) ELSE dup - 1) :
                   \E kept \in {0, j - 1} :
                     table' = table \o SubSeq(payload, 1, kept)
              /\ Abort("IOException")
              /\ UNCHANGED <<dirExists, tableExists>>

\* line 96: con.close()
Close ==
    /\ pc = "close"
    /\ con' = "closed"
    /\ Goto("print")
    /\ UNCHANGED store

\* Variant: the count of the rows found at start is reported.
SeededCountStale == Len(table0)

\* line 97: the number the success line reports
SeededCount == Len(payload)

\* line 97: print(f"Seeded {len(payload)} events into {DB_PATH}")
PrintSeeded ==
    /\ pc = "print"
    /\ out' = Append(out, SeededCount)
    /\ pc' = "done"
    /\ UNCHANGED <<store, retpc, con, raised, rng, collisions, genLocals,
                   payload, table0>>

\* ------------------------------------------------------- specifications
\* The store before the first run: no table, or a table of 0..MaxPrior rows.
Init ==
    /\ \E k \in 0 .. MaxPrior :
         /\ table = [j \in 1 .. k |-> PriorRow(j)]
         /\ tableExists \in (IF k = 0 THEN BOOLEAN ELSE {TRUE})
    /\ dirExists \in (IF tableExists THEN {TRUE} ELSE BOOLEAN)
    /\ pc = "idle"
    /\ retpc = "none"
    /\ con = "none"
    /\ raised = "none"
    /\ rng = 0
    /\ collisions = 0
    /\ args = << >>
    /\ clock = 0
    /\ count = 0
    /\ now = 0
    /\ events = << >>
    /\ payload = << >>
    /\ out = << >>
    /\ table0 = table

Next ==
    \/ StartRun
    \/ Mkdir
    \/ Connect
    \/ CreateTable
    \/ Delete
    \/ CallGenerate
    \/ GenEnter
    \/ GenLoop
    \/ GenRaise
    \/ GenReturn
    \/ Insert
    \/ Close
    \/ PrintSeeded

\* Successive runs of the program against one store file.
Spec == Init /\ [][Next]_vars

\* Argument tuples of a direct call: none, or one count in 0..MaxCount.
CallArgs == { << >> } \cup { <<n>> : n \in 0 .. MaxCount }

\* A direct call generate_events(*args) in a fresh process.  A call with an
\* explicit count explores every seed of GenSeeds; the default call, with
\* its 24 iterations, the seeds 0..MaxSeed.
InitGen ==
    /\ args \in CallArgs
    /\ rng \in (IF args = << >> THEN 0 .. MaxSeed ELSE GenSeeds)
    /\ clock \in ClockReadings
    /\ pc = "gen_entry"
    /\ retpc = "returned"
    /\ dirExists = FALSE
    /\ tableExists = FALSE
    /\ table = << >>
    /\ con = "none"
    /\ raised = "none"
    /\ collisions = 0
    /\ count = 0
    /\ now = 0
    /\ events = << >>
    /\ payload = << >>
    /\ out = << >>
    /\ table0 = << >>

NextGen ==
    \/ GenEnter
    \/ GenLoop
    \/ GenReturn

\* generate_events called on its own.
SpecGen == InitGen /\ [][NextGen]_vars

\* ------------------------------------------------------------ properties
Distinct(rows) == Cardinality(Ids(rows)) = Len(rows)

IsPrefix(a, b) ==
    /\ Len(a) <= Len(b)
    /\ \A k \in DOMAIN a : a[k] = b[k]

\* C1: full replace on reseed.  When a run has succeeded, the table holds
\* exactly the rows of that run's batch: as many rows as the run generated,
\* not that many more than it held before, and in particular none of the
\* rows it held when the run started unless the batch holds it too.
C1_FullReplace ==
    pc = "done" =>
        /\ table = payload
        /\ Len(table) = count
        /\ \A k \in DOMAIN table0 :
             (\E j \in DOMAIN table : table[j] = table0[k])
                 => (\E j \in DOMAIN payload : payload[j] = table0[k])

\* C1, its case: a second successful run, over the 24 rows of a first.
C1_Witness ==
    /\ pc = "done"
    /\ Len(table0) = 24
    /\ Len(table) = 24
    /\ Ids(table) \cap Ids(table0) = {}

\* C2, as claimed: once the connection has been opened, a run that has ended,
\* completed or failed, has closed it.
C2_ClosedOnEveryExit ==
    (pc \in {"done", "failed"} /\ con # "none") => con = "closed"

\* C3: generate_events(count) returns exactly count records, the empty
\* sequence for count 0, and 24 records when called with no argument.
C3_ExactCount ==
    pc = "returned" =>
        /\ Len(payload) = (IF args = << >> THEN 24 ELSE args[1])
        /\ (args = <<0>> => payload = << >>)

\* C3, its case: the call with no argument has returned its 24 records.
C3_Witness ==
    /\ pc = "returned"
    /\ args = << >>
    /\ Len(payload) = 24

\* C4: every record's starts_at, read back as a timestamp, lies between the
\* clock reading of the call truncated to the hour and that plus 30 days and
\* 12 hours, both ends included.
C4_StartsAtWithinWindow ==
    LET lo == (clock \div 60) * 60
        hi == lo + (((30 * 24) + 12) * 60)
    IN  \A k \in DOMAIN events :
          /\ lo <= ParseTimestamp(events[k].starts_at)
          /\ ParseTimestamp(events[k].starts_at) <= hi

\* C4, its case: a call at a reading off the hour returned a record at the
\* latest instant (30 days, 12 hours) and one at the earliest (0 days, 1 hour).
C4_Witness ==
    LET lo == (clock \div 60) * 60
    IN  /\ pc = "returned"
        /\ clock % 60 # 0
        /\ Len(payload) = 2
        /\ ParseTimestamp(payload[1].starts_at) = lo + (((30 * 24) + 12) * 60)
        /\ ParseTimestamp(payload[2].starts_at) = lo + 60

\* C5: every record's latitude lies within 0.045 degree of CENTER_LAT and its
\* longitude within 0.045 degree of CENTER_LNG, both ends included.
C5_CoordinatesWithinBox ==
    \A k \in DOMAIN events :
      /\ CENTER_LAT - 450 <= events[k].latitude
      /\ events[k].latitude <= CENTER_LAT + 450
      /\ CENTER_LNG - 450 <= events[k].longitude
      /\ events[k].longitude <= CENTER_LNG + 450

\* C5, its case: a record whose two jitters are the two ends of the range.
C5_Witness ==
    /\ pc = "returned"
    /\ Len(payload) >= 1
    /\ payload[1].latitude = CENTER_LAT + 450
    /\ payload[1].longitude = CENTER_LNG - 450

\* C6, as claimed: the ids of a batch are pairwise distinct and the batched
\* insert never fails on the primary key.
C6_BatchIdsAlwaysDistinct ==
    /\ Distinct(events)
    /\ Distinct(payload)
    /\ raised # "ConstraintException"

\* C6, amended: no two rows of the table share an id; when the batched insert
\* starts, no row of the batch has the id of a row in the table, the
\* delete-all having removed the earlier rows; the ids of a batch are
\* pairwise distinct, and the insert free of primary-key failures, as long
\* as uuid4 has repeated no value.
C6_TableIdsDistinct ==
    /\ Distinct(table)
    /\ (pc = "insert" => Ids(payload) \cap Ids(table) = {})
    /\ (collisions = 0 =>
          /\ Distinct(events)
          /\ Distinct(payload)
          /\ raised # "ConstraintException")

\* C6, its case: uuid4 repeated the id of a row of the earlier run, and the
\* run succeeded all the same.
C6_Witness ==
    /\ pc = "done"
    /\ collisions > 0
    /\ table0 # << >>
    /\ payload[1].id = table0[Len(table0)].id

\* C7: a run prints its success line once, last, after the insert and the
\* close; the number on it is the number of rows generated and the number of
\* rows in the table; a failed run prints nothing.
C7_ReportedCount ==
    /\ (pc = "done" =>
          /\ out = << Len(table) >>
          /\ Len(table) = Len(payload)
          /\ Len(payload) = count
          /\ con = "closed")
    /\ (pc # "done" => out = << >>)
    /\ (pc = "failed" => raised # "none")

\* C7, its case: a successful run over a table that held other rows.
C7_Witness ==
    /\ pc = "done"
    /\ out = << 24 >>
    /\ Len(table0) = 1

\* C8: the schema step never fails because the table exists already; when
\* it has completed the table exists and holds the rows it held when the
\* run started.
C8_SchemaIdempotent ==
    /\ raised # "TableAlreadyExists"
    /\ (pc = "delete" => (tableExists /\ table = table0))

\* C8, its case: the schema step completed over the table a full earlier
\* run had filled.
C8_Witness ==
    /\ pc = "delete"
    /\ Len(table0) = 24
    /\ table = table0

\* C9, as claimed: while main's call of generate_events runs, the store has
\* not been opened and the table is as the run found it; an exception in
\* generation leaves the table as the run found it.
C9_GenerationBeforePersistence ==
    /\ ((pc \in {"gen_entry", "gen_loop"} /\ retpc = "insert")
          => (con = "none" /\ table = table0))
    /\ (raised = "MemoryError" => table = table0)

\* C10: a step that fails the run leaves the table as the run found it when
\* it is a step before the delete-all or the delete-all itself, and holding
\* nothing but the first rows of the run's batch, possibly none, when it is
\* a later step.
C10_FailedRunShapes ==
    [][ (pc' = "failed" /\ pc # "failed") =>
          IF pc \in {"mkdir", "connect", "create", "delete"}
          THEN table' = table0
          ELSE IsPrefix(table', payload) ]_vars

\* C10, its case: the batched insert failed part-way over a table that held
\* rows: some rows of the batch are in, the earlier rows are gone.
C10_Witness ==
    /\ pc = "failed"
    /\ raised = "IOException"
    /\ table0 # << >>
    /\ table # << >>
    /\ Ids(table) \cap Ids(table0) = {}

====
